---- MODULE Spec2Model ----
(***************************************************************************)
(* WeWork desk-availability automation (src/src/index.ts, auth.ts,         *)
(* booking.ts, slack.ts, utils in src/unnamed/part_002).                   *)
(*                                                                         *)
(* The run of main() is a state machine over the orchestrator's position   *)
(* (pc).  Every call main awaits is one action; what the browser or the    *)
(* network answers inside that call is drawn with \E from small sets.      *)
(* checkIfDesksAvailable, sendCombinedSlackNotification,                   *)
(* getNextTuesdayAndThursday, isLoggedIn, navigateToBooking and            *)
(* checkAvailability are also applied on their own to inputs drawn from    *)
(* bounded sets (SpecDesks, SpecSlack, SpecReporter, SpecDates,            *)
(* SpecVerify, SpecWait, SpecResults, SpecCatch); clickElement is also     *)
(* taken one browser interaction at a time (SpecClick).                    *)
(***************************************************************************)
EXTENDS Integers, Sequences, FiniteSets, TLC

VARIABLES
    env,                  \* process.env as read by the config module
    config,               \* the config singleton (index.ts 192-226)
    today,                \* new Date(): day number, weekday = today % 7
    pc,                   \* position of main()
    phases,               \* orchestrator phases entered so far, in order
    browser,              \* "none" | "open" | "closed"
    closeCalls,           \* number of browser.close() calls
    viewport,             \* page.viewport()
    err,                  \* the error being propagated / last caught ("none")
    raisedBy,             \* the function the propagating error came out of
    exitCode,             \* process exit code (0 unless process.exit(1))
    shots,                \* names page.screenshot() was called with, in order
    loginSteps,           \* browser interactions performed by login, in order
    nextDates,            \* getNextTuesdayAndThursday()
    idx,                  \* position of the for-of loop over nextDates
    checkCalls,           \* dates checkAvailability was called with, in order
    availabilityResults,  \* results pushed by main
    dom,                  \* the card list the last availability read saw
    deskResult,           \* what the last checkIfDesksAvailable returned
    httpPosts,            \* payloads handed to axios.post, in order
    postOutcome,          \* what the last axios.post did
    summary,              \* lines of the availability summary logged
    completed,            \* 'Automation completed successfully!' was logged
    pageAnswers,          \* what the page answers to a function applied on
                          \* its own (<<>> in a run of main)
    returned,             \* what that function returned
    delays,               \* pauses between date checks (index.ts 91) that
                          \* have elapsed
    inFlight              \* the browser interactions clickElement has started
                          \* and that have not settled (applied on its own)

vars == <<env, config, today, pc, phases, browser, closeCalls, viewport, err,
          raisedBy, exitCode, shots, loginSteps, nextDates, idx, checkCalls,
          availabilityResults, dom, deskResult, httpPosts, postOutcome,
          summary, completed, pageAnswers, returned, inFlight, delays>>

(***************************************************************************)
(* Bounds of the model.                                                    *)
(***************************************************************************)
MaxDesks == 10   \* desk counts 0..MaxDesks appear in availability texts
MaxCards == 2    \* card-title elements on the booking page (unit check)
MaxResults == 2  \* length of the result list handed to the reporter (unit)
MaxToday == 20   \* "today" ranges over the days 0..MaxToday (unit)

(***************************************************************************)
(* Configuration (index.ts 165-237, the config module).                    *)
(***************************************************************************)
HardCodedLocation == "10 York Rd"
LoginUrl == "https://members.wework.com/workplaceone/content2/login/welcome"

Emails == {"", "me@example.com"}
Passwords == {"", "secret"}
EnvLocations == {"", "1 Main St"}
WebhookUrls == {"", "https://hooks.slack.com/services/X"}

Envs ==
    [WEWORK_EMAIL : Emails, WEWORK_PASSWORD : Passwords,
     WEWORK_LOCATION : EnvLocations, SLACK_WEBHOOK_URL : WebhookUrls,
     LOGOUT_AFTER_COMPLETION : {"", "false"},
     ENABLE_SCREENSHOTS : {"", "false"}]

\* a || b on strings: the empty string is falsy
OrElse(a, b) == IF a = "" THEN b ELSE a

LoadConfig(e) ==
    [email |-> OrElse(e.WEWORK_EMAIL, ""),
     password |-> OrElse(e.WEWORK_PASSWORD, ""),
     location |-> OrElse(e.WEWORK_LOCATION, HardCodedLocation),
     loginUrl |-> LoginUrl,
     logoutAfterCompletion |-> e.LOGOUT_AFTER_COMPLETION # "false",
     slackWebhookUrl |-> OrElse(e.SLACK_WEBHOOK_URL, ""),
     enableScreenshots |-> e.ENABLE_SCREENSHOTS # "false"]

ValidateConfigEmailOnly(c) ==
    IF c.email = "" THEN "WEWORK_EMAIL and WEWORK_PASSWORD must be set in .env file"
    ELSE IF c.location = "" THEN "LOCATION_NAME must be set in .env file"
    ELSE "none"

\* the error validateConfig throws, "none" when it returns
ValidateConfig(c) ==
    IF c.email = "" \/ c.password = ""
        THEN "WEWORK_EMAIL and WEWORK_PASSWORD must be set in .env file"
    ELSE IF c.location = "" THEN "LOCATION_NAME must be set in .env file"
    ELSE "none"

(***************************************************************************)
(* takeScreenshot (unnamed/part_002 17-37): nothing when screenshots are   *)
(* disabled or the viewport is invalid; otherwise one page.screenshot()    *)
(* call, whose failure is caught and logged.  The screenshots are recorded *)
(* as the names page.screenshot() was called with, in order.               *)
(***************************************************************************)
ViewportValid(v) == v.width > 0 /\ v.height > 0

TakeScreenshot(s, c, v, name) ==
    IF ~c.enableScreenshots THEN s
    ELSE IF ~ViewportValid(v) THEN s
    ELSE Append(s, name)

\* what page.screenshot() does when it is called
ShotOutcomes == {"saved", "fails"}

TakeScreenshotRethrows(c, v, shot) ==
    IF ~c.enableScreenshots
        THEN [err |-> "none", status |-> "skipped", called |-> FALSE]
    ELSE IF ~ViewportValid(v)
        THEN [err |-> "none", status |-> "skipped", called |-> FALSE]
    ELSE IF shot = "fails"
        THEN [err |-> "Error: screenshot failed", status |-> "failed",
              called |-> TRUE]
    ELSE [err |-> "none", status |-> "saved", called |-> TRUE]

\* takeScreenshot (unnamed/part_002 17-37) with the outcome of
\* page.screenshot(): the error that leaves it ("none": the catch clause logs
\* and returns), whether an image was saved, whether page.screenshot() ran
TakeScreenshotOutcome(c, v, shot) ==
    IF ~c.enableScreenshots
        THEN [err |-> "none", status |-> "skipped", called |-> FALSE]
    ELSE IF ~ViewportValid(v)
        THEN [err |-> "none", status |-> "skipped", called |-> FALSE]
    ELSE IF shot = "fails"
        THEN [err |-> "none", status |-> "failed", called |-> TRUE]
    ELSE [err |-> "none", status |-> "saved", called |-> TRUE]

\* catch (error) { log; await takeScreenshot(page, name); throw error; }
\* (auth.ts 56-60, booking.ts 58-62, 120-124, 183-187): an error thrown by
\* takeScreenshot would leave the catch clause in place of e
ShootAndRethrow(c, v, name, e, shot) ==
    LET t == TakeScreenshotOutcome(c, v, shot)
    IN  [err |-> IF t.err # "none" THEN t.err ELSE e,
         shots |-> IF t.called THEN <<name>> ELSE <<>>,
         status |-> t.status]

(***************************************************************************)
(* Availability text.  A text is a sequence of one-character strings; the  *)
(* page renders a count in decimal.                                        *)
(***************************************************************************)
DigitChars == <<"0", "1", "2", "3", "4", "5", "6", "7", "8", "9">>

IsDigit(ch) == \E d \in 1..10 : DigitChars[d] = ch

DigitValue(ch) == (CHOOSE d \in 1..10 : DigitChars[d] = ch) - 1

\* \s of the regular expression
IsSpace(ch) == ch \in {" ", "\t"}

\* the /i flag, for the letters of "desk"
LowerCase(ch) ==
    CASE ch = "D" -> "d" [] ch = "E" -> "e" [] ch = "S" -> "s"
      [] ch = "K" -> "k" [] OTHER -> ch

\* parseInt(str, 10) of a string of decimal digits
RECURSIVE ParseInt(_)
ParseInt(digits) ==
    IF digits = <<>> THEN 0
    ELSE 10 * ParseInt(SubSeq(digits, 1, Len(digits) - 1))
         + DigitValue(digits[Len(digits)])

\* end of the longest run of digits of text that starts at i (i - 1 when
\* text[i] is no digit)
RECURSIVE DigitRunEnd(_, _)
DigitRunEnd(text, i) ==
    IF i <= Len(text) /\ IsDigit(text[i]) THEN DigitRunEnd(text, i + 1) ELSE i - 1

\* the same for a run of white space
RECURSIVE SpaceRunEnd(_, _)
SpaceRunEnd(text, i) ==
    IF i <= Len(text) /\ IsSpace(text[i]) THEN SpaceRunEnd(text, i + 1) ELSE i - 1

\* /(\d+)\s+desk/i matched with the match starting at position i: the end of
\* group 1, or 0 when there is no match starting at i.  \d+ and \s+ are
\* greedy, and a shorter run is followed by a character of the same class, so
\* only the longest runs can match.
MatchAt(text, i) ==
    LET j == DigitRunEnd(text, i)
        k == SpaceRunEnd(text, j + 1)
    IN  IF /\ j >= i
           /\ k >= j + 1
           /\ k + 4 <= Len(text)
           /\ [n \in 1..4 |-> LowerCase(text[k + n])] = <<"d", "e", "s", "k">>
        THEN j ELSE 0

\* availabilityText.match(/(\d+)\s+desk/i): group 1 of the leftmost match,
\* <<>> for null
DesksMatch(text) ==
    LET starts == {i \in 1..Len(text) : MatchAt(text, i) > 0}
    IN  IF starts = {} THEN <<>>
        ELSE LET i == CHOOSE s \in starts : \A t \in starts : s <= t
             IN  SubSeq(text, i, MatchAt(text, i))

(***************************************************************************)
(* The booking page as checkIfDesksAvailable reads it: the .card-title     *)
(* elements in document order.  title: the tokens of textContent;          *)
(* container: closest('.d-flex.flex-column') exists; hasAvail: the         *)
(* container holds '.text-primary div[translate]'; text: its textContent.  *)
(***************************************************************************)
Includes(title, s) == \E i \in 1..Len(title) : title[i] = s

Last(q) == q[Len(q)]

Undefined == <<>>            \* desksCount unset
Count(n) == <<n>>            \* desksCount set to n

DefaultResult == [isAvailable |-> FALSE, desksCount |-> Undefined]

\* availabilityText as the page.evaluate callback returns it; <<>> stands
\* for null and for the empty string, both falsy
AvailabilityText(card) ==
    IF ~card.container THEN <<>>
    ELSE IF ~card.hasAvail THEN <<>>
    ELSE card.text

ResultOfMatchAtLeastZero(m) ==
    [isAvailable |-> ParseInt(m) >= 0, desksCount |-> Count(ParseInt(m))]

ResultOfMatchNoCount(m) ==
    [isAvailable |-> ParseInt(m) > 0, desksCount |-> Undefined]

\* booking.ts 229-233: the result returned for a non-null desksMatch
ResultOfMatch(m) ==
    [isAvailable |-> ParseInt(m) > 0, desksCount |-> Count(ParseInt(m))]

RECURSIVE ScanCardsFirstOnly(_, _)
ScanCardsFirstOnly(cards, i) ==
    IF i > Len(cards) THEN <<>>
    ELSE IF Includes(cards[i].title, HardCodedLocation)
         THEN IF /\ AvailabilityText(cards[i]) # <<>>
                 /\ DesksMatch(AvailabilityText(cards[i])) # <<>>
              THEN <<ResultOfMatch(DesksMatch(AvailabilityText(cards[i])))>>
              ELSE <<>>
         ELSE ScanCardsFirstOnly(cards, i + 1)

\* booking.ts 208-236: the loop over the cards from position i on:
\* <<r>> when it returns r, <<>> when it ends without returning
RECURSIVE ScanCards(_, _)
ScanCards(cards, i) ==
    IF i > Len(cards) THEN <<>>
    ELSE IF /\ Includes(cards[i].title, HardCodedLocation)
            /\ AvailabilityText(cards[i]) # <<>>
            /\ DesksMatch(AvailabilityText(cards[i])) # <<>>
         THEN <<ResultOfMatch(DesksMatch(AvailabilityText(cards[i])))>>
         ELSE ScanCards(cards, i + 1)

FallbackAvailable == [isAvailable |-> TRUE, desksCount |-> Undefined]

\* booking.ts 243: the result when the loop found nothing
Fallback == DefaultResult

\* booking.ts 195-249.  pageFails: a page query or evaluate call throws, which
\* the catch clause screenshots and rethrows.  Returns the error ("none" when
\* it returns normally), the result and the screenshots.
CheckIfDesksAvailable(s, c, v, cards, pageFails) ==
    IF pageFails
        THEN [err |-> "Error: page query failed", result |-> DefaultResult,
              shots |-> TakeScreenshot(s, c, v, "availability-check-error")]
    ELSE IF ScanCards(cards, 1) = <<>>
        THEN [err |-> "none", result |-> Fallback,
              shots |-> TakeScreenshot(s, c, v, "desk-availability-check")]
    ELSE [err |-> "none", result |-> ScanCards(cards, 1)[1], shots |-> s]

(***************************************************************************)
(* Pages the checks are run on.                                            *)
(***************************************************************************)
RECURSIVE Render(_)
Render(n) ==
    IF n < 10 THEN <<DigitChars[n + 1]>>
    ELSE Render(n \div 10) \o <<DigitChars[(n % 10) + 1]>>

\* "<n> desks", "x <n> \tDESK" and "0<n> Desk!": texts that show the count n
Plain(n) == Render(n) \o <<" ", "d", "e", "s", "k", "s">>
Shout(n) == <<"x", " ">> \o Render(n) \o <<" ", "\t", "D", "E", "S", "K">>
Padded(n) == <<"0">> \o Render(n) \o <<" ", "D", "e", "s", "k", "!">>

CountTexts(n) ==
    IF n \in {0, 1, MaxDesks} THEN {Plain(n), Shout(n), Padded(n)} ELSE {Plain(n)}

\* texts that show no count: "desks", "3desk", "3 seats", "full"
NoCountTexts ==
    {<<"d", "e", "s", "k", "s">>, <<"3", "d", "e", "s", "k">>,
     <<"3", " ", "s", "e", "a", "t", "s">>, <<"f", "u", "l", "l">>}

AllCountTexts == UNION {CountTexts(n) : n \in 0..MaxDesks}

YorkTitle == <<"WeWork", "10 York Rd">>
MainTitle == <<"1 Main St">>

Card(title, container, hasAvail, text) ==
    [title |-> title, container |-> container, hasAvail |-> hasAvail, text |-> text]

\* cards whose availability text shows no count, or that have none
SilentCards(title) ==
    {Card(title, FALSE, FALSE, <<>>), Card(title, TRUE, FALSE, <<>>),
     Card(title, TRUE, TRUE, <<>>)}
    \cup {Card(title, TRUE, TRUE, t) : t \in NoCountTexts}

Cards ==
    SilentCards(YorkTitle)
    \cup {Card(YorkTitle, TRUE, TRUE, t) : t \in AllCountTexts}
    \cup {Card(MainTitle, TRUE, FALSE, <<>>), Card(MainTitle, TRUE, TRUE, Plain(0)),
          Card(MainTitle, TRUE, TRUE, Plain(MaxDesks))}

SeqsUpTo(S, n) == UNION {[1..k -> S] : k \in 0..n}

\* the pages of the unit check
Doms == SeqsUpTo(Cards, MaxCards)

\* the pages a run meets
RunDoms ==
    {<<>>,
     <<Card(YorkTitle, TRUE, TRUE, Plain(0))>>,
     <<Card(YorkTitle, TRUE, TRUE, <<"f", "u", "l", "l">>),
       Card(YorkTitle, TRUE, TRUE, Shout(MaxDesks))>>}

(***************************************************************************)
(* Dates.  A Date is its local day number; the weekday of day d is d % 7   *)
(* (0 = Sunday), so "today" ranges over the seven weekdays.                *)
(***************************************************************************)
Weekdays == 0..6

GetDay(d) == d % 7

DaysUntilSameDay(target, wd) == (target - wd + 7) % 7

\* index.ts 34-36, 40-42: days from weekday wd to the next weekday target
DaysUntil(target, wd) ==
    LET k == (target - wd + 7) % 7 IN IF k = 0 THEN 7 ELSE k

\* index.ts 28-50
GetNextTuesdayAndThursday(t) ==
    <<t + DaysUntil(2, GetDay(t)), t + DaysUntil(4, GetDay(t))>>

\* formatDateToString (booking.ts 10-13), as the suffix of a file name
FormatDateToString(d) == ToString(d)

(***************************************************************************)
(* booking.ts                                                              *)
(***************************************************************************)
\* locationText.toLowerCase().replace(/\s+/g, '-') for the locations of the
\* model (booking.ts 83)
LowerDashed(locationText) ==
    CASE locationText = "10 York Rd" -> "10-york-rd"
      [] locationText = "1 Main St" -> "1-main-st"
      [] OTHER -> locationText

WaitForLocationTextRethrows(s, c, v, locationText, found) ==
    IF found THEN [err |-> "none", shots |-> s]
    ELSE [err |-> "TimeoutError: waiting for function",
          shots |-> TakeScreenshot(s, c, v,
                      LowerDashed(locationText) \o "-text-not-found")]

\* booking.ts 70-86: the catch clause logs a warning, screenshots and does
\* not rethrow; the error that leaves the function, and the screenshots
WaitForLocationText(s, c, v, locationText, found) ==
    IF found THEN [err |-> "none", shots |-> s]
    ELSE [err |-> "none",
          shots |-> TakeScreenshot(s, c, v,
                      LowerDashed(locationText) \o "-text-not-found")]

\* booking.ts 44-63
NavigateToBooking(s, c, v, gotoOk, found) ==
    LET waited == WaitForLocationText(s, c, v, HardCodedLocation, found)
    IN  IF ~gotoOk
            THEN [err |-> "Error: navigation failed",
                  shots |-> TakeScreenshot(s, c, v, "navigation-error")]
        ELSE IF waited.err # "none"
            THEN [err |-> waited.err,
                  shots |-> TakeScreenshot(waited.shots, c, v, "navigation-error")]
        ELSE [err |-> "none", shots |-> waited.shots]

\* what the page does to selectDate
SelectOutcomes == {"ok", "waitTimeout", "noInput", "typeFails", "readFails"}

\* booking.ts 132-188
SelectDate(s, c, v, date, outcome, found) ==
    LET fail == "date-selection-error-" \o FormatDateToString(date)
        waited == WaitForLocationText(s, c, v, c.location, found)
    IN  CASE outcome = "waitTimeout" ->
               [err |-> "TimeoutError: waiting for selector",
                shots |-> TakeScreenshot(s, c, v, fail)]
          [] outcome = "noInput" ->
               [err |-> "Error: Could not find date input field",
                shots |-> TakeScreenshot(
                            TakeScreenshot(s, c, v, "date-input-not-found"),
                            c, v, fail)]
          [] outcome = "typeFails" ->
               [err |-> "Error: typing failed",
                shots |-> TakeScreenshot(s, c, v, fail)]
          [] OTHER ->
               IF waited.err # "none"
                   THEN [err |-> waited.err,
                         shots |-> TakeScreenshot(waited.shots, c, v, fail)]
               ELSE IF outcome = "readFails"
                   THEN [err |-> "Error: evaluate failed",
                         shots |-> TakeScreenshot(waited.shots, c, v, fail)]
               ELSE [err |-> "none",
                     shots |-> TakeScreenshot(waited.shots, c, v,
                                 "date-selected-" \o FormatDateToString(date))]

AvailabilityCatchNoShot(s, c, v, date, e) ==
    [err |-> e, result |-> <<>>, read |-> <<>>, shots |-> s]

\* booking.ts 120-124: the catch clause of checkAvailability screenshots and
\* rethrows the error e
AvailabilityCatch(s, c, v, date, e) ==
    [err |-> e, result |-> <<>>, read |-> <<>>,
     shots |-> TakeScreenshot(s, c, v,
                 "availability-error-" \o FormatDateToString(date))]

\* booking.ts 94-125
CheckAvailability(s, c, v, date, outcome, found, cards, pageFails) ==
    LET sel == SelectDate(s, c, v, date, outcome, found)
        chk == CheckIfDesksAvailable(sel.shots, c, v, cards, pageFails)
    IN  IF sel.err # "none"
            THEN AvailabilityCatch(sel.shots, c, v, date, sel.err)
        ELSE IF chk.err # "none"
            THEN AvailabilityCatch(chk.shots, c, v, date, chk.err)
        ELSE [err |-> "none",
              result |-> <<[date |-> date,
                            isAvailable |-> chk.result.isAvailable,
                            desksCount |-> chk.result.desksCount]>>,
              read |-> <<chk.result>>,
              shots |-> IF chk.result.isAvailable
                          THEN TakeScreenshot(chk.shots, c, v,
                                 "available-desks-" \o FormatDateToString(date))
                          ELSE chk.shots]

(***************************************************************************)
(* auth.ts                                                                 *)
(***************************************************************************)
\* what the page does to one clickElement / fillInput call:
\* the selector matches and the interaction works; it matches nothing; it
\* matches and the click or typing throws; the query itself throws.
\* steps: the interactions performed, a query with what it found
StepOutcomes == {"ok", "absent", "fails", "queryThrows"}

\* name.replace(/\s+/g, '-') for the names login uses (auth.ts 85, 112)
Dashed(name) ==
    CASE name = "member log in button" -> "member-log-in-button"
      [] name = "email field" -> "email-field"
      [] name = "password field" -> "password-field"
      [] name = "login button" -> "login-button"
      [] OTHER -> name

ClickElementShootsWhenAbsent(s, c, v, elementName, outcome) ==
    CASE outcome = "ok" ->
           [ret |-> TRUE, threw |-> FALSE, shots |-> s,
            steps |-> <<"query " \o elementName \o " -> 1", "click " \o elementName>>]
      [] outcome = "absent" ->
           [ret |-> FALSE, threw |-> FALSE,
            shots |-> TakeScreenshot(s, c, v, "error-clicking-" \o Dashed(elementName)),
            steps |-> <<"query " \o elementName \o " -> 0">>]
      [] outcome = "fails" ->
           [ret |-> FALSE, threw |-> FALSE,
            shots |-> TakeScreenshot(s, c, v, "error-clicking-" \o Dashed(elementName)),
            steps |-> <<"query " \o elementName \o " -> 1", "click " \o elementName>>]
      [] OTHER ->
           [ret |-> FALSE, threw |-> TRUE, shots |-> s,
            steps |-> <<"query " \o elementName \o " -> throws">>]

\* auth.ts 70-91
ClickElement(s, c, v, elementName, outcome) ==
    CASE outcome = "ok" ->
           [ret |-> TRUE, threw |-> FALSE, shots |-> s,
            steps |-> <<"query " \o elementName \o " -> 1", "click " \o elementName>>]
      [] outcome = "absent" ->
           [ret |-> FALSE, threw |-> FALSE, shots |-> s,
            steps |-> <<"query " \o elementName \o " -> 0">>]
      [] outcome = "fails" ->
           [ret |-> FALSE, threw |-> FALSE,
            shots |-> TakeScreenshot(s, c, v, "error-clicking-" \o Dashed(elementName)),
            steps |-> <<"query " \o elementName \o " -> 1", "click " \o elementName>>]
      [] OTHER ->
           [ret |-> FALSE, threw |-> TRUE, shots |-> s,
            steps |-> <<"query " \o elementName \o " -> throws">>]

\* auth.ts 101-118
FillInput(s, c, v, fieldName, outcome) ==
    CASE outcome = "ok" ->
           [ret |-> TRUE, threw |-> FALSE, shots |-> s,
            steps |-> <<"query " \o fieldName \o " -> 1", "type " \o fieldName>>]
      [] outcome = "absent" ->
           [ret |-> FALSE, threw |-> FALSE, shots |-> s,
            steps |-> <<"query " \o fieldName \o " -> 0">>]
      [] outcome = "fails" ->
           [ret |-> FALSE, threw |-> FALSE,
            shots |-> TakeScreenshot(s, c, v, "error-filling-" \o Dashed(fieldName)),
            steps |-> <<"query " \o fieldName \o " -> 1", "type " \o fieldName>>]
      [] OTHER ->
           [ret |-> FALSE, threw |-> TRUE, shots |-> s,
            steps |-> <<"query " \o fieldName \o " -> throws">>]

LoginPlanPasswordFirst ==
    <<[kind |-> "click", name |-> "member log in button",
       msg |-> "Error: Could not find member log in button"],
      [kind |-> "fill", name |-> "password field",
       msg |-> "Error: Could not find password input field"],
      [kind |-> "fill", name |-> "email field",
       msg |-> "Error: Could not find email input field"],
      [kind |-> "click", name |-> "login button",
       msg |-> "Error: Could not find login button"]>>

\* the four steps of login, in source order (auth.ts 17-49)
LoginPlan ==
    <<[kind |-> "click", name |-> "member log in button",
       msg |-> "Error: Could not find member log in button"],
      [kind |-> "fill", name |-> "email field",
       msg |-> "Error: Could not find email input field"],
      [kind |-> "fill", name |-> "password field",
       msg |-> "Error: Could not find password input field"],
      [kind |-> "click", name |-> "login button",
       msg |-> "Error: Could not find login button"]>>

\* the try block of login from step k on (auth.ts 17-55): the error thrown
\* ("none" when the block completes), the screenshots and the interactions
RECURSIVE LoginFrom(_, _, _, _, _)
LoginFrom(k, s, c, v, outcomes) ==
    IF k > Len(LoginPlan) THEN [err |-> "none", shots |-> s, steps |-> <<>>]
    ELSE
        LET step == LoginPlan[k]
            r == IF step.kind = "click"
                    THEN ClickElement(s, c, v, step.name, outcomes[k])
                    ELSE FillInput(s, c, v, step.name, outcomes[k])
            rest == LoginFrom(k + 1, r.shots, c, v, outcomes)
        IN  IF r.threw
                THEN [err |-> "Error: page query failed", shots |-> r.shots,
                      steps |-> r.steps]
            ELSE IF ~r.ret
                THEN [err |-> step.msg, shots |-> r.shots, steps |-> r.steps]
            ELSE [err |-> rest.err, shots |-> rest.shots,
                  steps |-> r.steps \o rest.steps]

\* auth.ts 56-60: the catch clause of login screenshots and rethrows
LoginCatch(s, c, v, tried) ==
    IF tried.err = "none" THEN tried
    ELSE [tried EXCEPT !.shots = TakeScreenshot(tried.shots, c, v, "login-error")]

\* auth.ts 9-61
Login(s, c, v, gotoOk, outcomes) ==
    IF ~gotoOk
        THEN LoginCatch(s, c, v,
                 [err |-> "Error: navigation failed", shots |-> s,
                  steps |-> <<"goto login">>])
    ELSE LET body == LoginFrom(1, s, c, v, outcomes)
         IN  LoginCatch(s, c, v,
                 [body EXCEPT !.steps = <<"goto login">> \o body.steps])

\* the step outcomes in which everything before step k works and step k has
\* outcome o (k = 0: every step works)
LoginOutcomes ==
    {[i \in 1..4 |-> "ok"]}
    \cup {[i \in 1..4 |-> IF i = k THEN o ELSE "ok"] :
            k \in 1..4, o \in StepOutcomes \ {"ok"}}

\* page.url() after login, as the path segments isLoggedIn looks for
Urls ==
    {<<"/workplaceone", "/login">>, <<"/workplaceone", "/dashboard">>,
     <<"/account">>, <<"/profile">>, <<"/workspace">>}

AuthenticatedPaths == {"/dashboard", "/account", "/profile", "/workspace"}

IsLoggedInMarkerOnly(s, c, v, queryOk, markerPresent, url) ==
    IF ~queryOk
        THEN [ret |-> FALSE,
              shots |-> TakeScreenshot(s, c, v, "login-status-error")]
    ELSE IF markerPresent THEN [ret |-> TRUE, shots |-> s]
    ELSE [ret |-> FALSE,
          shots |-> TakeScreenshot(s, c, v, "login-verification-failed")]

\* auth.ts 125-156: never throws
IsLoggedIn(s, c, v, queryOk, markerPresent, url) ==
    IF ~queryOk
        THEN [ret |-> FALSE,
              shots |-> TakeScreenshot(s, c, v, "login-status-error")]
    ELSE IF markerPresent THEN [ret |-> TRUE, shots |-> s]
    ELSE IF \E p \in AuthenticatedPaths : Includes(url, p)
        THEN [ret |-> TRUE, shots |-> s]
    ELSE [ret |-> FALSE,
          shots |-> TakeScreenshot(s, c, v, "login-verification-failed")]

\* what the page does to logout: the direct control is clicked; the control is
\* clicked in the user menu; no control is found; an interaction throws
LogoutOutcomes == {"direct", "viaMenu", "notFound", "throws"}

\* auth.ts 162-211
Logout(s, c, v, outcome) ==
    CASE outcome = "throws" ->
           [err |-> "Error: logout interaction failed",
            shots |-> TakeScreenshot(s, c, v, "logout-error")]
      [] outcome = "notFound" ->
           [err |-> "none",
            shots |-> TakeScreenshot(s, c, v, "logout-failed")]
      [] OTHER -> [err |-> "none", shots |-> s]

(***************************************************************************)
(* slack.ts: the combined notification.  A message text is a sequence of   *)
(* tokens; "\n" is the line break.                                         *)
(***************************************************************************)
\* formatDate(formatDateToString(date)), the date as the message shows it
FormattedDate(d) == "day " \o ToString(d)

\* slack.ts 46-56
StatusText(r) ==
    IF r.isAvailable
        THEN IF r.desksCount # Undefined
                THEN <<"*", ToString(r.desksCount[1]) \o " desks available", "*">>
                ELSE <<"*", "Desks are available", "*">>
        ELSE <<"*", "No desks available", "*">>

\* slack.ts 46-58
SectionLine(r) ==
    <<IF r.isAvailable THEN "(check mark)" ELSE "(cross mark)", " ",
      FormattedDate(r.date), ": ">> \o StatusText(r)

RECURSIVE SectionsReversed(_)
SectionsReversed(results) ==
    IF results = <<>> THEN <<>>
    ELSE IF Len(results) = 1 THEN SectionLine(results[1])
    ELSE SectionsReversed(Tail(results)) \o <<"\n">> \o SectionLine(results[1])

\* slack.ts 38-59: results.map(...).join('\n')
RECURSIVE Sections(_)
Sections(results) ==
    IF results = <<>> THEN <<>>
    ELSE IF Len(results) = 1 THEN SectionLine(results[1])
    ELSE SectionLine(results[1]) \o <<"\n">> \o Sections(Tail(results))

\* slack.ts 62
BookingLink(c) == <<"\n", "\n", "<" \o c.loginUrl \o "|*Click here to book a desk*>">>

\* slack.ts 65-67
PayloadText(c, results, locationName) ==
    <<"*WeWork Desk Availability for " \o locationName \o "*", "\n", "\n">>
    \o Sections(results) \o BookingLink(c)

\* what axios.post does: resolves with 200, resolves with another 2xx
\* status, rejects for a status outside 2xx, rejects for a transport error
PostOutcomes == {"200", "204", "rejected 500", "network error"}

PostFailed(outcome) == outcome \in {"rejected 500", "network error"}

\* slack.ts 77-80: the catch clause logs and does not rethrow; the error that
\* leaves the function
SlackCatch(outcome) == "none"

SendAlways(posts, c, results, locationName, outcome) ==
    [posts |-> Append(posts, [url |-> c.slackWebhookUrl,
                              text |-> PayloadText(c, results, locationName)]),
     outcome |-> outcome, err |-> SlackCatch(outcome)]

\* slack.ts 20-81
SendCombinedSlackNotification(posts, c, results, locationName, outcome) ==
    IF c.slackWebhookUrl = ""
        THEN [posts |-> posts, outcome |-> "skipped", err |-> "none"]
    ELSE IF Len(results) = 0
        THEN [posts |-> posts, outcome |-> "skipped", err |-> "none"]
    ELSE [posts |-> Append(posts, [url |-> c.slackWebhookUrl,
                                   text |-> PayloadText(c, results, locationName)]),
          outcome |-> outcome, err |-> SlackCatch(outcome)]

\* index.ts 99-104: one line of the availability summary
SummaryLine(r) ==
    [date |-> r.date,
     status |-> IF r.isAvailable
                  THEN IF r.desksCount # Undefined /\ r.desksCount # Count(0)
                          THEN "Available (" \o ToString(r.desksCount[1]) \o " desks)"
                          ELSE "Available (unknown desks)"
                  ELSE "Not available"]

(***************************************************************************)
(* main() (index.ts 53-123) and the end of the process.                    *)
(***************************************************************************)
NoViewport == [width |-> 0, height |-> 0]

\* the state every specification starts from, but for the inputs it draws
Fresh ==
    /\ config = LoadConfig(env)
    /\ phases = <<>>
    /\ closeCalls = 0
    /\ err = "none"
    /\ raisedBy = "none"
    /\ exitCode = 0
    /\ shots = <<>>
    /\ loginSteps = <<>>
    /\ nextDates = <<>>
    /\ idx = 0
    /\ checkCalls = <<>>
    /\ deskResult = <<>>
    /\ httpPosts = <<>>
    /\ postOutcome = "none"
    /\ summary = <<>>
    /\ completed = FALSE
    /\ returned = <<>>
    /\ inFlight = {}
    /\ delays = 0

Init ==
    /\ env \in Envs
    /\ today \in Weekdays
    /\ pc = "validate"
    /\ browser = "none"
    /\ viewport = NoViewport
    /\ availabilityResults = <<>>
    /\ dom = <<>>
    /\ pageAnswers = <<>>
    /\ Fresh

\* an error leaves the callee: where main goes, and what it carries
Raise(handler, e, by) ==
    /\ pc' = handler
    /\ err' = e
    /\ raisedBy' = by

NoRaise(next) ==
    /\ pc' = next
    /\ UNCHANGED <<err, raisedBy>>

LoopHeadSkipsLast(i, dates) == IF i >= Len(dates) THEN "report" ELSE "check"

\* index.ts 85: the for-of loop goes on with element i, or ends
LoopHead(i, dates) == IF i > Len(dates) THEN "report" ELSE "check"

PushResultFront(results, r) == <<r>> \o results

\* index.ts 88
PushResult(results, r) == Append(results, r)

\* index.ts 56
Validate ==
    /\ pc = "validate"
    /\ phases' = Append(phases, "Init")
    /\ IF ValidateConfig(config) # "none"
          THEN Raise("outerCatch", ValidateConfig(config), "validateConfig")
          ELSE NoRaise("launch")
    /\ UNCHANGED <<env, config, today, browser, closeCalls, viewport, exitCode,
                   shots, loginSteps, nextDates, idx, checkCalls,
                   availabilityResults, dom, deskResult, httpPosts, postOutcome,
                   summary, completed,
                   pageAnswers, returned, inFlight, delays>>

\* index.ts 60, 126-158
LaunchBrowser ==
    /\ pc = "launch"
    /\ \E ok \in BOOLEAN :
         IF ok
            THEN /\ browser' = "open"
                 /\ NoRaise("newPage")
            ELSE /\ browser' = browser
                 /\ Raise("outerCatch", "Error: launch failed", "launchBrowser")
    /\ UNCHANGED <<env, config, today, phases, closeCalls, viewport, exitCode,
                   shots, loginSteps, nextDates, idx, checkCalls,
                   availabilityResults, dom, deskResult, httpPosts, postOutcome,
                   summary, completed,
                   pageAnswers, returned, inFlight, delays>>

\* index.ts 61: outside the inner try; the page starts with the default
\* viewport of launch (index.ts 151-154)
NewPage ==
    /\ pc = "newPage"
    /\ \E ok \in BOOLEAN :
         IF ok
            THEN /\ viewport' = [width |-> 1280, height |-> 1024]
                 /\ NoRaise("setViewport")
            ELSE /\ viewport' = viewport
                 /\ Raise("outerCatch", "Error: newPage failed", "newPage")
    /\ UNCHANGED <<env, config, today, phases, browser, closeCalls, exitCode,
                   shots, loginSteps, nextDates, idx, checkCalls,
                   availabilityResults, dom, deskResult, httpPosts, postOutcome,
                   summary, completed,
                   pageAnswers, returned, inFlight, delays>>

\* index.ts 65
SetViewport ==
    /\ pc = "setViewport"
    /\ \E ok \in BOOLEAN :
         IF ok
            THEN /\ viewport' = [width |-> 1280, height |-> 800]
                 /\ NoRaise("login")
            ELSE /\ viewport' = viewport
                 /\ Raise("innerCatch", "Error: setViewport failed", "setViewport")
    /\ UNCHANGED <<env, config, today, phases, browser, closeCalls, exitCode,
                   shots, loginSteps, nextDates, idx, checkCalls,
                   availabilityResults, dom, deskResult, httpPosts, postOutcome,
                   summary, completed,
                   pageAnswers, returned, inFlight, delays>>

\* index.ts 68
DoLogin ==
    /\ pc = "login"
    /\ phases' = Append(phases, "Authenticating")
    /\ \E gotoOk \in BOOLEAN, outcomes \in LoginOutcomes :
         LET r == Login(shots, config, viewport, gotoOk, outcomes)
         IN  /\ shots' = r.shots
             /\ loginSteps' = r.steps
             /\ IF r.err # "none"
                   THEN Raise("innerCatch", r.err, "login")
                   ELSE NoRaise("isLoggedIn")
    /\ UNCHANGED <<env, config, today, browser, closeCalls, viewport, exitCode,
                   nextDates, idx, checkCalls, availabilityResults, dom,
                   deskResult, httpPosts, postOutcome, summary, completed,
                   pageAnswers, returned, inFlight, delays>>

\* index.ts 71-76
CheckLoggedIn ==
    /\ pc = "isLoggedIn"
    /\ \E queryOk \in BOOLEAN, marker \in BOOLEAN, url \in Urls :
         LET r == IsLoggedIn(shots, config, viewport, queryOk, marker, url)
         IN  /\ shots' = r.shots
             /\ IF ~r.ret
                   THEN Raise("innerCatch",
                              "Error: Login failed. Could not verify logged in status.",
                              "main")
                   ELSE NoRaise("navigate")
    /\ UNCHANGED <<env, config, today, phases, browser, closeCalls, viewport,
                   exitCode, loginSteps, nextDates, idx, checkCalls,
                   availabilityResults, dom, deskResult, httpPosts, postOutcome,
                   summary, completed,
                   pageAnswers, returned, inFlight, delays>>

\* index.ts 79-83
Navigate ==
    /\ pc = "navigate"
    /\ phases' = Append(phases, "Navigating")
    /\ \E gotoOk \in BOOLEAN, found \in BOOLEAN :
         LET r == NavigateToBooking(shots, config, viewport, gotoOk, found)
         IN  /\ shots' = r.shots
             /\ IF r.err # "none"
                   THEN /\ Raise("innerCatch", r.err, "navigateToBooking")
                        /\ UNCHANGED <<nextDates, idx>>
                   ELSE /\ NoRaise(LoopHead(1, GetNextTuesdayAndThursday(today)))
                        /\ nextDates' = GetNextTuesdayAndThursday(today)
                        /\ idx' = 1
    /\ UNCHANGED <<env, config, today, browser, closeCalls, viewport, exitCode,
                   loginSteps, checkCalls, availabilityResults, dom, deskResult,
                   httpPosts, postOutcome, summary, completed,
                   pageAnswers, returned, inFlight, delays>>

\* index.ts 87-88
CheckDate ==
    /\ pc = "check"
    /\ phases' = Append(phases, "CheckingDates " \o ToString(idx - 1))
    /\ checkCalls' = Append(checkCalls, nextDates[idx])
    /\ \E outcome \in SelectOutcomes, found \in BOOLEAN, cards \in RunDoms,
          pageFails \in BOOLEAN :
         LET r == CheckAvailability(shots, config, viewport, nextDates[idx],
                                    outcome, found, cards, pageFails)
         IN  /\ shots' = r.shots
             /\ IF r.err # "none"
                   THEN /\ Raise("innerCatch", r.err, "checkAvailability")
                        /\ UNCHANGED availabilityResults
                   ELSE /\ NoRaise("delay")
                        /\ availabilityResults' =
                              PushResult(availabilityResults, r.result[1])
    /\ UNCHANGED <<env, config, today, browser, closeCalls, viewport, exitCode,
                   loginSteps, nextDates, idx, dom, deskResult, httpPosts,
                   postOutcome, summary, completed,
                   pageAnswers, returned, inFlight, delays>>

PauseSkipped(n) == n

\* index.ts 91: await new Promise(resolve => setTimeout(resolve, 2000))
Pause(n) == n + 1

\* index.ts 91: the pause after a check, then the next element or the end
Delay ==
    /\ pc = "delay"
    /\ delays' = Pause(delays)
    /\ idx' = idx + 1
    /\ pc' = LoopHead(idx + 1, nextDates)
    /\ UNCHANGED <<env, config, today, phases, browser, closeCalls, viewport,
                   err, raisedBy, exitCode, shots, loginSteps, nextDates,
                   checkCalls, availabilityResults, dom, deskResult, httpPosts,
                   postOutcome, summary, completed,
                   pageAnswers, returned, inFlight>>

\* index.ts 95
Report ==
    /\ pc = "report"
    /\ phases' = Append(phases, "Reporting")
    /\ \E outcome \in PostOutcomes :
         LET r == SendCombinedSlackNotification(httpPosts, config,
                      availabilityResults, config.location, outcome)
         IN  /\ httpPosts' = r.posts
             /\ postOutcome' = r.outcome
             /\ IF r.err # "none"
                   THEN Raise("innerCatch", r.err, "sendCombinedSlackNotification")
                   ELSE NoRaise("summary")
    /\ UNCHANGED <<env, config, today, browser, closeCalls, viewport, exitCode,
                   shots, loginSteps, nextDates, idx, checkCalls,
                   availabilityResults, dom, deskResult, summary, completed,
                   pageAnswers, returned, inFlight, delays>>

\* index.ts 98-110
LogSummary ==
    /\ pc = "summary"
    /\ summary' = [i \in 1..Len(availabilityResults) |->
                     SummaryLine(availabilityResults[i])]
    /\ pc' = IF config.logoutAfterCompletion THEN "logout" ELSE "complete"
    /\ UNCHANGED <<env, config, today, phases, browser, closeCalls, viewport,
                   err, raisedBy, exitCode, shots, loginSteps, nextDates, idx,
                   checkCalls, availabilityResults, dom, deskResult, httpPosts,
                   postOutcome, completed,
                   pageAnswers, returned, inFlight, delays>>

\* index.ts 109
DoLogout ==
    /\ pc = "logout"
    /\ phases' = Append(phases, "LoggingOut")
    /\ \E outcome \in LogoutOutcomes :
         LET r == Logout(shots, config, viewport, outcome)
         IN  /\ shots' = r.shots
             /\ IF r.err # "none"
                   THEN Raise("innerCatch", r.err, "logout")
                   ELSE NoRaise("complete")
    /\ UNCHANGED <<env, config, today, browser, closeCalls, viewport, exitCode,
                   loginSteps, nextDates, idx, checkCalls, availabilityResults,
                   dom, deskResult, httpPosts, postOutcome, summary, completed,
                   pageAnswers, returned, inFlight, delays>>

\* index.ts 112
Complete ==
    /\ pc = "complete"
    /\ phases' = Append(phases, "Done")
    /\ completed' = TRUE
    /\ pc' = "finally"
    /\ UNCHANGED <<env, config, today, browser, closeCalls, viewport, err,
                   raisedBy, exitCode, shots, loginSteps, nextDates, idx,
                   checkCalls, availabilityResults, dom, deskResult, httpPosts,
                   postOutcome, summary,
                   pageAnswers, returned, inFlight, delays>>

\* index.ts 113-115: the error is logged and screenshotted, not rethrown
InnerCatch ==
    /\ pc = "innerCatch"
    /\ phases' = Append(phases, "Failed")
    /\ shots' = TakeScreenshot(shots, config, viewport, "error")
    /\ pc' = "finally"
    /\ UNCHANGED <<env, config, today, browser, closeCalls, viewport, err,
                   raisedBy, exitCode, loginSteps, nextDates, idx, checkCalls,
                   availabilityResults, dom, deskResult, httpPosts, postOutcome,
                   summary, completed,
                   pageAnswers, returned, inFlight, delays>>

\* index.ts 116-118: browser.close().  When it returns, main() resolves, the
\* catch of main().catch (index.ts 161-164) does not run and the process ends
\* with the exit code it has; when it throws, the error reaches the outer catch
Finally ==
    /\ pc = "finally"
    /\ closeCalls' = closeCalls + 1
    /\ \E ok \in BOOLEAN :
         IF ok
            THEN /\ browser' = "closed"
                 /\ NoRaise("exited")
            ELSE /\ browser' = browser
                 /\ Raise("outerCatch", "Error: close failed", "browser.close")
    /\ UNCHANGED <<env, config, today, phases, viewport, exitCode, shots,
                   loginSteps, nextDates, idx, checkCalls, availabilityResults,
                   dom, deskResult, httpPosts, postOutcome, summary, completed,
                   pageAnswers, returned, inFlight, delays>>

\* index.ts 119-122: console.error and process.exit(1)
OuterCatch ==
    /\ pc = "outerCatch"
    /\ phases' = IF Last(phases) = "Failed" THEN phases
                                            ELSE Append(phases, "Failed")
    /\ exitCode' = 1
    /\ pc' = "exited"
    /\ UNCHANGED <<env, config, today, browser, closeCalls, viewport,
                   err, raisedBy, shots, loginSteps, nextDates, idx, checkCalls,
                   availabilityResults, dom, deskResult, httpPosts, postOutcome,
                   summary, completed,
                   pageAnswers, returned, inFlight, delays>>

Next ==
    \/ Validate \/ LaunchBrowser \/ NewPage \/ SetViewport \/ DoLogin
    \/ CheckLoggedIn \/ Navigate \/ CheckDate \/ Delay \/ Report \/ LogSummary
    \/ DoLogout \/ Complete \/ InnerCatch \/ Finally \/ OuterCatch

Spec == Init /\ [][Next]_vars

(***************************************************************************)
(* checkIfDesksAvailable applied to every page of Doms, on an open page.   *)
(***************************************************************************)
\* environments with valid credentials
ValidEnvs == {e \in Envs : ValidateConfig(LoadConfig(e)) = "none"}

UnitEnvs ==
    {e \in ValidEnvs : e.SLACK_WEBHOOK_URL # "" /\ e.LOGOUT_AFTER_COMPLETION = ""}

InitDesks ==
    /\ env \in UnitEnvs
    /\ today = 0
    /\ pc = "unitDesks"
    /\ browser = "open"
    /\ viewport = [width |-> 1280, height |-> 800]
    /\ availabilityResults = <<>>
    /\ dom \in Doms
    /\ pageAnswers = <<>>
    /\ Fresh

DesksUnit ==
    /\ pc = "unitDesks"
    /\ \E pageFails \in BOOLEAN :
         LET r == CheckIfDesksAvailable(shots, config, viewport, dom, pageFails)
         IN  /\ shots' = r.shots
             /\ err' = r.err
             /\ deskResult' = IF r.err = "none" THEN <<r.result>> ELSE <<>>
    /\ raisedBy' = IF err' = "none" THEN "none" ELSE "checkIfDesksAvailable"
    /\ pc' = "unitDone"
    /\ UNCHANGED <<env, config, today, phases, browser, closeCalls, viewport,
                   exitCode, loginSteps, nextDates, idx, checkCalls,
                   availabilityResults, dom, httpPosts, postOutcome, summary,
                   completed,
                   pageAnswers, returned, inFlight, delays>>

NextDesks == DesksUnit

SpecDesks == InitDesks /\ [][NextDesks]_vars

(***************************************************************************)
(* sendCombinedSlackNotification applied to every result list of           *)
(* ResultLists, the empty one included.                                    *)
(***************************************************************************)
UnitDates == {9, 6}

UnitResults ==
    {[date |-> d, isAvailable |-> a, desksCount |-> n] :
        d \in UnitDates, a \in BOOLEAN, n \in {Undefined, Count(MaxDesks)}}
    \cup {[date |-> d, isAvailable |-> FALSE, desksCount |-> Count(0)] :
            d \in UnitDates}

ResultLists == SeqsUpTo(UnitResults, MaxResults)

SlackEnvs == {e \in ValidEnvs : e.LOGOUT_AFTER_COMPLETION = "" /\ e.ENABLE_SCREENSHOTS = ""}

InitSlack ==
    /\ env \in SlackEnvs
    /\ today = 0
    /\ pc = "unitReport"
    /\ browser = "open"
    /\ viewport = [width |-> 1280, height |-> 800]
    /\ availabilityResults \in ResultLists
    /\ dom = <<>>
    /\ pageAnswers = <<>>
    /\ Fresh

ReportUnit ==
    /\ pc = "unitReport"
    /\ \E outcome \in PostOutcomes :
         LET r == SendCombinedSlackNotification(httpPosts, config,
                      availabilityResults, config.location, outcome)
         IN  /\ httpPosts' = r.posts
             /\ postOutcome' = r.outcome
             /\ err' = r.err
    /\ raisedBy' = IF err' = "none" THEN "none" ELSE "sendCombinedSlackNotification"
    /\ pc' = "unitDone"
    /\ UNCHANGED <<env, config, today, phases, browser, closeCalls, viewport,
                   exitCode, shots, loginSteps, nextDates, idx, checkCalls,
                   availabilityResults, dom, deskResult, summary, completed,
                   pageAnswers, returned, inFlight, delays>>

NextSlack == ReportUnit

SpecSlack == InitSlack /\ [][NextSlack]_vars

\* the reporter within the run and on its own
InitReporter == Init \/ InitSlack

NextReporter == Next \/ ReportUnit

SpecReporter == InitReporter /\ [][NextReporter]_vars

(***************************************************************************)
(* getNextTuesdayAndThursday applied to every "today" of 0..MaxToday.      *)
(***************************************************************************)
InitDates ==
    /\ env \in UnitEnvs
    /\ today \in 0..MaxToday
    /\ pc = "unitDates"
    /\ browser = "open"
    /\ viewport = [width |-> 1280, height |-> 800]
    /\ availabilityResults = <<>>
    /\ dom = <<>>
    /\ pageAnswers = <<>>
    /\ Fresh

DatesUnit ==
    /\ pc = "unitDates"
    /\ nextDates' = GetNextTuesdayAndThursday(today)
    /\ pc' = "unitDatesDone"
    /\ UNCHANGED <<env, config, today, phases, browser, closeCalls, viewport,
                   err, raisedBy, exitCode, shots, loginSteps, idx, checkCalls,
                   availabilityResults, dom, deskResult, httpPosts, postOutcome,
                   summary, completed,
                   pageAnswers, returned, inFlight, delays>>

NextDates == DatesUnit

SpecDates == InitDates /\ [][NextDates]_vars

(***************************************************************************)
(* isLoggedIn applied to every answer of the page: whether the query for   *)
(* the marker works, whether the marker is there, and the URL.             *)
(***************************************************************************)
LoggedInAnswers == [queryOk : BOOLEAN, marker : BOOLEAN, url : Urls]

InitLoggedIn ==
    /\ env \in UnitEnvs
    /\ today = 0
    /\ pc = "unitLoggedIn"
    /\ browser = "open"
    /\ viewport = [width |-> 1280, height |-> 800]
    /\ availabilityResults = <<>>
    /\ dom = <<>>
    /\ pageAnswers \in LoggedInAnswers
    /\ Fresh

LoggedInUnit ==
    /\ pc = "unitLoggedIn"
    /\ LET r == IsLoggedIn(shots, config, viewport, pageAnswers.queryOk,
                           pageAnswers.marker, pageAnswers.url)
       IN  /\ shots' = r.shots
           /\ returned' = <<r.ret>>
    /\ pc' = "unitLoggedInDone"
    /\ UNCHANGED <<env, config, today, phases, browser, closeCalls, viewport,
                   err, raisedBy, exitCode, loginSteps, nextDates, idx,
                   checkCalls, availabilityResults, dom, deskResult, httpPosts,
                   postOutcome, summary, completed, pageAnswers, inFlight, delays>>

\* the login verification within the run and on its own
InitVerify == Init \/ InitLoggedIn

NextVerify == Next \/ LoggedInUnit

SpecVerify == InitVerify /\ [][NextVerify]_vars

(***************************************************************************)
(* navigateToBooking and checkAvailability applied to every answer of the  *)
(* page, the wait for the location text timing out included.               *)
(***************************************************************************)
NavigateAnswers == [gotoOk : BOOLEAN, found : BOOLEAN]

CheckAnswers == [outcome : SelectOutcomes, found : BOOLEAN, pageFails : BOOLEAN]

InitWait ==
    /\ env \in UnitEnvs
    /\ today = 0
    /\ browser = "open"
    /\ viewport = [width |-> 1280, height |-> 800]
    /\ availabilityResults = <<>>
    /\ \/ /\ pc = "unitNavigate"
          /\ pageAnswers \in NavigateAnswers
          /\ dom = <<>>
       \/ /\ pc = "unitCheck"
          /\ pageAnswers \in CheckAnswers
          /\ dom \in RunDoms
    /\ Fresh

NavigateUnit ==
    /\ pc = "unitNavigate"
    /\ LET r == NavigateToBooking(shots, config, viewport, pageAnswers.gotoOk,
                                  pageAnswers.found)
       IN  /\ shots' = r.shots
           /\ err' = r.err
    /\ raisedBy' = IF err' = "none" THEN "none" ELSE "navigateToBooking"
    /\ pc' = "unitNavigateDone"
    /\ UNCHANGED <<env, config, today, phases, browser, closeCalls, viewport,
                   exitCode, loginSteps, nextDates, idx, checkCalls,
                   availabilityResults, dom, deskResult, httpPosts, postOutcome,
                   summary, completed, pageAnswers, returned, inFlight, delays>>

CheckUnit ==
    /\ pc = "unitCheck"
    /\ \E date \in UnitDates :
         LET r == CheckAvailability(shots, config, viewport, date,
                                    pageAnswers.outcome, pageAnswers.found,
                                    dom, pageAnswers.pageFails)
         IN  /\ checkCalls' = <<date>>
             /\ shots' = r.shots
             /\ err' = r.err
             /\ returned' = r.result
    /\ raisedBy' = IF err' = "none" THEN "none" ELSE "checkAvailability"
    /\ pc' = "unitCheckDone"
    /\ UNCHANGED <<env, config, today, phases, browser, closeCalls, viewport,
                   exitCode, loginSteps, nextDates, idx, availabilityResults,
                   dom, deskResult, httpPosts, postOutcome, summary, completed,
                   pageAnswers, inFlight, delays>>

NextWait == NavigateUnit \/ CheckUnit

SpecWait == InitWait /\ [][NextWait]_vars

(***************************************************************************)
(* clickElement (auth.ts 70-91) one browser interaction at a time: every   *)
(* call to the page is started, is in flight, and settles.  login calls it *)
(* for the two buttons.                                                    *)
(***************************************************************************)
ClickNames == {"member log in button", "login button"}

InitClick ==
    /\ env \in ValidEnvs
    /\ today = 0
    /\ pc = "unitClick"
    /\ browser = "open"
    /\ viewport = [width |-> 1280, height |-> 800]
    /\ availabilityResults = <<>>
    /\ dom = <<>>
    /\ pageAnswers \in [elementName : ClickNames]
    /\ Fresh

ClickUnchanged ==
    UNCHANGED <<env, config, today, phases, browser, closeCalls, viewport,
                raisedBy, exitCode, nextDates, idx, checkCalls,
                availabilityResults, dom, deskResult, httpPosts, postOutcome,
                summary, completed, pageAnswers, delays>>

\* auth.ts 71: await page.$$(selector) is started
ClickQueryStarts ==
    /\ pc = "unitClick"
    /\ inFlight' = inFlight \cup {"element query"}
    /\ pc' = "querying"
    /\ UNCHANGED <<err, shots, loginSteps, returned>>
    /\ ClickUnchanged

\* auth.ts 71-74, 90: the query settles: it throws, finds nothing (return
\* false) or finds the element
ClickQuerySettles ==
    /\ pc = "querying"
    /\ inFlight' = inFlight \ {"element query"}
    /\ \E answer \in {"throws", "0", "1"} :
         /\ loginSteps' = Append(loginSteps,
                "query " \o pageAnswers.elementName \o " -> " \o answer)
         /\ CASE answer = "throws" ->
                   /\ err' = "Error: page query failed"
                   /\ returned' = returned
                   /\ pc' = "unitClickDone"
              [] answer = "0" ->
                   /\ err' = err
                   /\ returned' = <<FALSE>>
                   /\ pc' = "unitClickDone"
              [] OTHER ->
                   /\ UNCHANGED <<err, returned>>
                   /\ pc' = "found"
    /\ UNCHANGED shots
    /\ ClickUnchanged

\* auth.ts 76-79: page.waitForNavigation(...) and elements[0].click() are
\* both called before Promise.all is awaited
ClickAndWaitStart ==
    /\ pc = "found"
    /\ inFlight' = inFlight \cup {"navigation wait", "click"}
    /\ loginSteps' = Append(loginSteps, "click " \o pageAnswers.elementName)
    /\ pc' = "awaitingAll"
    /\ UNCHANGED <<err, shots, returned>>
    /\ ClickUnchanged

\* auth.ts 77: the navigation happens or the wait times out after 60 s; the
\* .catch(() => {}) makes either a resolution.  The wait is not cancelled when
\* clickElement has gone on without it.
NavigationWaitSettles ==
    /\ "navigation wait" \in inFlight
    /\ inFlight' = inFlight \ {"navigation wait"}
    /\ UNCHANGED <<pc, err, shots, loginSteps, returned>>
    /\ ClickUnchanged

\* auth.ts 78: the click resolves; Promise.all still waits for the other
ClickResolves ==
    /\ pc = "awaitingAll"
    /\ "click" \in inFlight
    /\ inFlight' = inFlight \ {"click"}
    /\ UNCHANGED <<pc, err, shots, loginSteps, returned>>
    /\ ClickUnchanged

\* auth.ts 78, 83: the click rejects; Promise.all rejects at once and the
\* catch clause runs
ClickRejects ==
    /\ pc = "awaitingAll"
    /\ "click" \in inFlight
    /\ inFlight' = inFlight \ {"click"}
    /\ pc' = "catch"
    /\ UNCHANGED <<err, shots, loginSteps, returned>>
    /\ ClickUnchanged

ClickReturnsOnClick ==
    /\ pc = "awaitingAll"
    /\ "click" \notin inFlight
    /\ returned' = <<TRUE>>
    /\ pc' = "unitClickDone"
    /\ UNCHANGED <<err, shots, loginSteps, inFlight>>
    /\ ClickUnchanged

\* auth.ts 76-82: Promise.all resolves when both have, and clickElement
\* returns true
ClickReturnsTrue ==
    /\ pc = "awaitingAll"
    /\ inFlight = {}
    /\ returned' = <<TRUE>>
    /\ pc' = "unitClickDone"
    /\ UNCHANGED <<err, shots, loginSteps, inFlight>>
    /\ ClickUnchanged

\* auth.ts 84-85 with takeScreenshot (unnamed/part_002 17-32): the catch
\* clause calls page.screenshot() unless screenshots are off
ClickCatchStarts ==
    /\ pc = "catch"
    /\ IF config.enableScreenshots /\ ViewportValid(viewport)
          THEN /\ inFlight' = inFlight \cup {"screenshot"}
               /\ shots' = Append(shots, "error-clicking-"
                                            \o Dashed(pageAnswers.elementName))
               /\ pc' = "shooting"
               /\ UNCHANGED returned
          ELSE /\ UNCHANGED <<inFlight, shots>>
               /\ returned' = <<FALSE>>
               /\ pc' = "unitClickDone"
    /\ UNCHANGED <<err, loginSteps>>
    /\ ClickUnchanged

\* auth.ts 85-86: the screenshot settles and clickElement returns false
ClickScreenshotSettles ==
    /\ pc = "shooting"
    /\ inFlight' = inFlight \ {"screenshot"}
    /\ returned' = <<FALSE>>
    /\ pc' = "unitClickDone"
    /\ UNCHANGED <<err, shots, loginSteps>>
    /\ ClickUnchanged

NextClick ==
    \/ ClickQueryStarts \/ ClickQuerySettles \/ ClickAndWaitStart
    \/ NavigationWaitSettles \/ ClickResolves \/ ClickRejects
    \/ ClickReturnsTrue \/ ClickCatchStarts \/ ClickScreenshotSettles

SpecClick == InitClick /\ [][NextClick]_vars

(***************************************************************************)
(* The catch clauses that screenshot and rethrow, for every outcome of the *)
(* screenshot.                                                             *)
(***************************************************************************)
ErrorPaths ==
    {[fn |-> "login", name |-> "login-error",
      error |-> "Error: Could not find login button"],
     [fn |-> "navigateToBooking", name |-> "navigation-error",
      error |-> "Error: navigation failed"],
     [fn |-> "selectDate",
      name |-> "date-selection-error-" \o FormatDateToString(9),
      error |-> "TimeoutError: waiting for selector"],
     [fn |-> "checkAvailability",
      name |-> "availability-error-" \o FormatDateToString(9),
      error |-> "Error: page query failed"]}

InitCatch ==
    /\ env \in ValidEnvs
    /\ today = 0
    /\ pc = "unitCatch"
    /\ browser = "open"
    /\ viewport \in {[width |-> 1280, height |-> 800], NoViewport}
    /\ availabilityResults = <<>>
    /\ dom = <<>>
    /\ pageAnswers \in [path : ErrorPaths, shot : ShotOutcomes]
    /\ Fresh

CatchUnit ==
    /\ pc = "unitCatch"
    /\ LET r == ShootAndRethrow(config, viewport, pageAnswers.path.name,
                                pageAnswers.path.error, pageAnswers.shot)
       IN  /\ err' = r.err
           /\ shots' = shots \o r.shots
           /\ returned' = <<r.status>>
    /\ raisedBy' = pageAnswers.path.fn
    /\ pc' = "unitCatchDone"
    /\ UNCHANGED <<env, config, today, phases, browser, closeCalls, viewport,
                   exitCode, loginSteps, nextDates, idx, checkCalls,
                   availabilityResults, dom, deskResult, httpPosts, postOutcome,
                   summary, completed, pageAnswers, inFlight, delays>>

NextCatch == CatchUnit

SpecCatch == InitCatch /\ [][NextCatch]_vars

\* the availability read on every page of Doms, and within the run, where
\* its results go on to the reporter and the summary
InitResults == Init \/ InitDesks

NextResults == Next \/ DesksUnit

SpecResults == InitResults /\ [][NextResults]_vars

(***************************************************************************)
(* Properties.                                                             *)
(***************************************************************************)
Entered(phase) == \E i \in 1..Len(phases) : phases[i] = phase

\* the callees whose errors reach main before the report is sent
BeforeReporting == {"login", "main", "navigateToBooking", "checkAvailability"}

\* C1: an exception raised by login, by the login verification, by the
\* navigation or by a date check aborts the run, is screenshotted, and the
\* process ends with a non-zero exit code; exit code 0 only after a run that
\* completed.
C1_FailureExitsNonZero ==
    pc = "exited" =>
        /\ raisedBy \in BeforeReporting =>
              /\ ~completed
              /\ config.enableScreenshots => Includes(shots, "error")
              /\ exitCode # 0
        /\ exitCode = 0 => completed

\* C2: with an empty email or password, validateConfig throws before
\* launchBrowser and newPage are reached, and the process exits with a
\* non-zero code.
C2_EmptyCredentialsFailFast ==
    (config.email = "" \/ config.password = "") =>
        /\ browser = "none"
        /\ viewport = NoViewport
        /\ pc \in {"validate", "outerCatch", "exited"}
        /\ pc # "validate" => raisedBy = "validateConfig" /\ err # "none"
        /\ pc = "exited" => exitCode # 0

C2_Witness ==
    /\ pc = "exited"
    /\ config.email # ""
    /\ config.password = ""
    /\ exitCode = 1
    /\ browser = "none"

\* C3: checkAvailability is called once per target date, in index order, and
\* a run that reaches the report has one result per date with
\* results[i].date = d[i].
C3_OneResultPerDateInOrder ==
    /\ Len(checkCalls) <= Len(nextDates)
    /\ \A i \in 1..Len(checkCalls) : checkCalls[i] = nextDates[i]
    /\ (pc = "report" \/ Entered("Reporting")) =>
          /\ checkCalls = nextDates
          /\ Len(availabilityResults) = Len(nextDates)
          /\ \A i \in 1..Len(nextDates) :
                availabilityResults[i].date = nextDates[i]

C3_Witness ==
    /\ Entered("Reporting")
    /\ Len(availabilityResults) = 2
    /\ availabilityResults[1].date > availabilityResults[2].date
    /\ availabilityResults[1].isAvailable
    /\ ~availabilityResults[2].isAvailable

\* the card is one checkIfDesksAvailable reads the availability from
IsLocationCard(card) == Includes(card.title, HardCodedLocation)

\* the availability text of the card shows the count n
ShowsCount(card, n) ==
    /\ card.container
    /\ card.hasAvail
    /\ card.text \in {Plain(n), Shout(n), Padded(n)}

\* the card has no availability text, or one that shows no count
ShowsNoCount(card) ==
    \/ ~card.container
    \/ ~card.hasAvail
    \/ card.text = <<>>
    \/ card.text \in NoCountTexts

\* C4: when the availability text found for the location card reads
\* "<n> desk" (any case, any white space), the result is desksCount = n and
\* isAvailable = (n > 0), for every n >= 0; n = 0 gives isAvailable = FALSE
\* with desksCount = 0.
C4_CountDecidesAvailability ==
    (pc = "unitDone" /\ err = "none") =>
        \A i \in 1..Len(dom), n \in 0..MaxDesks :
            ( /\ IsLocationCard(dom[i])
              /\ ShowsCount(dom[i], n)
              /\ \A j \in 1..(i - 1) :
                    IsLocationCard(dom[j]) => ShowsNoCount(dom[j]) )
            => deskResult = <<[isAvailable |-> n > 0, desksCount |-> Count(n)]>>

C4_Witness ==
    /\ pc = "unitDone"
    /\ dom = <<Card(YorkTitle, TRUE, TRUE, Padded(0))>>
    /\ deskResult = <<[isAvailable |-> FALSE, desksCount |-> Count(0)]>>

\* C5: when no card title matches the location, or the matching card has no
\* availability text, or its text holds no "<integer> desk", the result is
\* isAvailable = FALSE with desksCount unset, never isAvailable = TRUE.
C5_InconclusiveIsUnavailable ==
    (pc = "unitDone" /\ err = "none") =>
        /\ (\A i \in 1..Len(dom) : IsLocationCard(dom[i]) => ShowsNoCount(dom[i]))
              => deskResult = <<DefaultResult>>
        /\ deskResult[1].isAvailable =>
              \E i \in 1..Len(dom), n \in 1..MaxDesks :
                  IsLocationCard(dom[i]) /\ ShowsCount(dom[i], n)

C5_Witness ==
    /\ pc = "unitDone"
    /\ dom = <<Card(MainTitle, TRUE, TRUE, Plain(MaxDesks)),
               Card(YorkTitle, TRUE, TRUE, <<"3", "d", "e", "s", "k">>)>>
    /\ deskResult = <<DefaultResult>>

\* the reporter has been called
Reported == pc = "unitDone" \/ Entered("Reporting")

\* C6: sendCombinedSlackNotification makes no HTTP request when the webhook
\* URL is empty or the result list is empty, and exactly one POST otherwise;
\* a run makes at most one request.
C6_AtMostOnePost ==
    /\ Len(httpPosts) <= 1
    /\ ~Reported => httpPosts = <<>>
    /\ Reported =>
          IF config.slackWebhookUrl = "" \/ availabilityResults = <<>>
             THEN httpPosts = <<>>
             ELSE Len(httpPosts) = 1 /\ httpPosts[1].url = config.slackWebhookUrl

C6_Witness ==
    /\ pc = "unitDone"
    /\ config.slackWebhookUrl # ""
    /\ availabilityResults = <<>>
    /\ httpPosts = <<>>

\* C7: a failed delivery (a status outside 2xx or a transport error) does not
\* raise out of sendCombinedSlackNotification, and the run goes on with the
\* availability summary, the logout if configured, and completes.
C7_DeliveryFailureRunCompletes ==
    PostFailed(postOutcome) =>
        /\ raisedBy # "sendCombinedSlackNotification"
        /\ pc = "exited" =>
              /\ Len(summary) = Len(availabilityResults)
              /\ completed

\* the lines of a message text
RECURSIVE SplitLines(_)
SplitLines(text) ==
    IF \A k \in 1..Len(text) : text[k] # "\n" THEN <<text>>
    ELSE LET k == CHOOSE b \in 1..Len(text) :
                     text[b] = "\n" /\ \A a \in 1..(b - 1) : text[a] # "\n"
         IN  <<SubSeq(text, 1, k - 1)>> \o SplitLines(SubSeq(text, k + 1, Len(text)))

LinkToken == "<" \o LoginUrl \o "|*Click here to book a desk*>"

\* C8: for a non-empty result list and a configured webhook, the message text
\* has one line per result in input order, reading "<n> desks available"
\* for an available result with count n and "No desks available" for an
\* unavailable one, followed by exactly one booking link to the login URL.
C8_OneLinePerResultThenLink ==
    (pc = "unitDone" /\ httpPosts # <<>>) =>
        LET text == httpPosts[1].text
            lines == SplitLines(text)
            N == Len(availabilityResults)
        IN  /\ Len(lines) = N + 4
            /\ lines[2] = <<>>
            /\ \A i \in 1..N :
                  LET r == availabilityResults[i]
                      line == lines[i + 2]
                  IN  /\ Includes(line, FormattedDate(r.date))
                      /\ (r.isAvailable /\ r.desksCount # Undefined) =>
                            Includes(line, ToString(r.desksCount[1]) \o " desks available")
                      /\ ~r.isAvailable => Includes(line, "No desks available")
                      /\ r.isAvailable => ~Includes(line, "No desks available")
            /\ lines[N + 3] = <<>>
            /\ lines[N + 4] = <<LinkToken>>
            /\ Cardinality({k \in 1..Len(text) : text[k] = LinkToken}) = 1

C8_Witness ==
    /\ pc = "unitDone"
    /\ Len(httpPosts) = 1
    /\ availabilityResults =
          <<[date |-> 6, isAvailable |-> TRUE, desksCount |-> Count(MaxDesks)],
            [date |-> 9, isAvailable |-> FALSE, desksCount |-> Undefined]>>

\* C9: when login gets to the submit step and the submit selector matches
\* nothing, login throws "Could not find login button", and with
\* screenshots enabled exactly one screenshot has been taken by then.
C9_MissingSubmitOneScreenshot ==
    ( /\ pc = "innerCatch"
      /\ raisedBy = "login"
      /\ Last(loginSteps) = "query login button -> 0" )
    => /\ err = "Error: Could not find login button"
       /\ config.enableScreenshots => shots = <<"login-error">>
       /\ ~config.enableScreenshots => shots = <<>>

C9_Witness ==
    /\ pc = "innerCatch"
    /\ raisedBy = "login"
    /\ Last(loginSteps) = "query login button -> 0"
    /\ config.enableScreenshots
    /\ Len(shots) = 1

\* C10: once a browser was launched, it is closed exactly once before the
\* process ends, whatever step fails after the launch, newPage included.
C10_BrowserClosedOnce ==
    (pc = "exited" /\ browser # "none") => closeCalls = 1

\* C11: when checkAvailability raises for date i, it has taken the
\* "availability-error" screenshot of that date and rethrown; main then
\* checks no later date, never calls the reporter and makes no HTTP request,
\* so the results of the dates before i are never reported.
C11_FailedCheckAbortsUnreported ==
    raisedBy = "checkAvailability" =>
        /\ err # "none"
        /\ pc \in {"innerCatch", "finally", "outerCatch", "exited"}
        /\ (config.enableScreenshots /\ pc = "innerCatch") =>
              Last(shots) = "availability-error-"
                               \o FormatDateToString(nextDates[idx])
        /\ Len(checkCalls) = idx
        /\ Len(availabilityResults) = idx - 1
        /\ ~Entered("Reporting")
        /\ httpPosts = <<>>
        /\ summary = <<>>
        /\ ~completed

C11_Witness ==
    /\ pc = "exited"
    /\ raisedBy = "checkAvailability"
    /\ idx = 2
    /\ Len(availabilityResults) = 1
    /\ availabilityResults[1].isAvailable
    /\ config.slackWebhookUrl # ""
    /\ httpPosts = <<>>

\* C12: a logout failure (no logout control found directly or in the user
\* menu, or a browser interaction throwing during logout) raises no error to
\* main, and a run that entered the logout ends as completed, as it does when
\* the logout succeeds.
C12_LogoutFailureNonFatal ==
    /\ raisedBy # "logout"
    /\ (Entered("LoggingOut") /\ pc \in {"finally", "outerCatch", "exited"})
          => completed

Tuesday == 2
Thursday == 4

\* C13: for every weekday of today, getNextTuesdayAndThursday returns exactly
\* two dates, the first a Tuesday and the second a Thursday, each strictly
\* after today and at most 7 days ahead, at the offset
\* (target - weekday + 7) mod 7 with 0 replaced by 7; the Tuesday comes first
\* in the sequence also when the Thursday is the earlier date.
C13_NextTuesdayThenThursday ==
    pc = "unitDatesDone" =>
        /\ Len(nextDates) = 2
        /\ GetDay(nextDates[1]) = Tuesday
        /\ GetDay(nextDates[2]) = Thursday
        /\ \A i \in 1..2 :
              /\ nextDates[i] > today
              /\ nextDates[i] <= today + 7
        /\ \A i \in 1..2 :
              LET target == IF i = 1 THEN Tuesday ELSE Thursday
                  offset == (target - GetDay(today) + 7) % 7
              IN  nextDates[i] - today = IF offset = 0 THEN 7 ELSE offset

C13_Witness ==
    /\ pc = "unitDatesDone"
    /\ GetDay(today) = Tuesday
    /\ today >= 7
    /\ nextDates = <<today + 7, today + 2>>

\* C14: when the location name given through the environment is empty or
\* unset, validateConfig throws a configuration error and the process does not
\* get to launch a browser.
C14_EmptyLocationFailsValidation ==
    env.WEWORK_LOCATION = "" =>
        /\ browser = "none"
        /\ pc \in {"validate", "outerCatch", "exited"}
        /\ pc # "validate" => raisedBy = "validateConfig" /\ err # "none"

\* the phases of a run that completes, in order
PhaseOrder ==
    <<"Init", "Authenticating", "Navigating">>
    \o [i \in 1..Len(GetNextTuesdayAndThursday(today)) |->
           "CheckingDates " \o ToString(i - 1)]
    \o <<"Reporting">>
    \o (IF config.logoutAfterCompletion THEN <<"LoggingOut">> ELSE <<>>)
    \o <<"Done">>

\* the phases entered before the failure, if there was one
BeforeFailed ==
    IF phases # <<>> /\ Last(phases) = "Failed"
        THEN SubSeq(phases, 1, Len(phases) - 1)
        ELSE phases

\* C15: a run enters the phases only in the order Init, Authenticating,
\* Navigating, CheckingDates 0 .. N-1, Reporting, LoggingOut (only when the
\* logout is configured), Done, none skipped and none entered twice;
\* Reporting is entered only after all N dates were checked; a run that
\* ends otherwise ends in Failed, which is entered once and is the last phase.
C15_PhasesInOrder ==
    /\ Len(BeforeFailed) <= Len(PhaseOrder)
    /\ BeforeFailed = SubSeq(PhaseOrder, 1, Len(BeforeFailed))
    /\ Entered("Reporting") =>
          /\ checkCalls = GetNextTuesdayAndThursday(today)
          /\ Len(availabilityResults) = Len(checkCalls)
    /\ Entered("LoggingOut") => config.logoutAfterCompletion
    /\ pc = "exited" => Last(phases) \in {"Done", "Failed"}
    /\ completed <=> Entered("Done")

C15_Witness ==
    /\ pc = "exited"
    /\ phases = <<"Init", "Authenticating", "Navigating", "CheckingDates 0",
                  "CheckingDates 1", "Reporting", "LoggingOut", "Done">>
    /\ exitCode = 0

\* the controls of the login page in the order login is to use them, and
\* what it does to each
Controls == <<"member log in button", "email field", "password field", "login button">>
Acts == <<"click", "type", "type", "click">>

\* the interactions of a login whose first k steps succeeded
Performed(k) ==
    <<"goto login">>
    \o [j \in 1..(2 * k) |->
          IF j % 2 = 1 THEN "query " \o Controls[(j + 1) \div 2] \o " -> 1"
                       ELSE Acts[j \div 2] \o " " \o Controls[j \div 2]]

\* the errors login throws for a control it could not use
Missing ==
    <<"Error: Could not find member log in button",
      "Error: Could not find email input field",
      "Error: Could not find password input field",
      "Error: Could not find login button">>

\* C16: login clicks the member-login control, fills the email, fills the
\* password and clicks submit, in that order, and attempts a step only after
\* every earlier step succeeded; when a control is missing, nothing is done
\* after the query for it (the password is not typed when the email field is
\* absent) and login raises, so the run goes no further.
C16_LoginStepsInStrictOrder ==
    loginSteps # <<>> =>
        /\ \E k \in 0..4 :
              \/ loginSteps = Performed(k)
              \/ /\ k < 4
                 /\ loginSteps = Performed(k)
                        \o <<"query " \o Controls[k + 1] \o " -> 0">>
                 /\ pc = "innerCatch" => err = Missing[k + 1]
              \/ /\ k < 4
                 /\ loginSteps = Performed(k)
                        \o <<"query " \o Controls[k + 1] \o " -> throws">>
        /\ loginSteps # Performed(4) =>
              /\ pc \in {"innerCatch", "finally", "outerCatch", "exited"}
              /\ pc = "innerCatch" => raisedBy = "login" /\ err # "none"
              /\ ~Entered("Navigating")
              /\ checkCalls = <<>>

C16_Witness ==
    /\ pc = "innerCatch"
    /\ raisedBy = "login"
    /\ err = "Error: Could not find email input field"
    /\ loginSteps = <<"goto login", "query member log in button -> 1",
                      "click member log in button", "query email field -> 0">>

\* the URL holds one of the authenticated-path substrings
OnAuthenticatedPath(url) ==
    \/ Includes(url, "/dashboard")
    \/ Includes(url, "/account")
    \/ Includes(url, "/profile")
    \/ Includes(url, "/workspace")

\* isLoggedIn never raises, screenshots once when it returns false, and main
\* aborts before the navigation when it does
FalseIsShotAndAborts ==
    /\ pc = "unitLoggedInDone" =>
          /\ err = "none"
          /\ returned = <<TRUE>> => shots = <<>>
          /\ (returned = <<FALSE>> /\ config.enableScreenshots) => Len(shots) = 1
    /\ raisedBy = "main" =>
          /\ err = "Error: Login failed. Could not verify logged in status."
          /\ pc \in {"innerCatch", "finally", "outerCatch", "exited"}
          /\ ~Entered("Navigating")
          /\ checkCalls = <<>>
          /\ ~completed
    /\ Entered("Navigating") => raisedBy # "main"

\* C17 as stated: isLoggedIn returns true exactly when the marker element is
\* present or the URL holds /dashboard, /account, /profile or /workspace;
\* otherwise it screenshots and returns false without raising, and main aborts
\* before navigating or checking a date.
C17_TrueIffMarkerOrUrl ==
    /\ pc = "unitLoggedInDone" =>
          returned = <<pageAnswers.marker \/ OnAuthenticatedPath(pageAnswers.url)>>
    /\ FalseIsShotAndAborts

\* C17 amended: isLoggedIn returns true exactly when the query for the marker
\* does not throw and the marker is present or the URL holds one of the four
\* substrings; when the query throws it returns false whatever the URL.
C17_TrueIffQueryWorksAndMarkerOrUrl ==
    /\ pc = "unitLoggedInDone" =>
          returned = <<pageAnswers.queryOk
                        /\ (pageAnswers.marker
                              \/ OnAuthenticatedPath(pageAnswers.url))>>
    /\ FalseIsShotAndAborts

C17_Witness ==
    /\ pc = "unitLoggedInDone"
    /\ ~pageAnswers.queryOk
    /\ pageAnswers.url = <<"/workplaceone", "/dashboard">>
    /\ returned = <<FALSE>>
    /\ shots = <<"login-status-error">>

\* card i is the first location card of the page
FirstLocationCard(i) ==
    /\ IsLocationCard(dom[i])
    /\ \A j \in 1..(i - 1) : ~IsLocationCard(dom[j])

\* card i is the first location card of the page that shows a count
FirstCardWithCount(i) ==
    /\ IsLocationCard(dom[i])
    /\ ~ShowsNoCount(dom[i])
    /\ \A j \in 1..(i - 1) : IsLocationCard(dom[j]) => ShowsNoCount(dom[j])

\* C18 as stated: only the first card whose title holds the location is used;
\* when it has no availability text or no "<integer> desk" in it, the result
\* is isAvailable = FALSE with desksCount unset, and later matching cards are
\* not looked at.
C18_FirstMatchingCardOnly ==
    (pc = "unitDone" /\ err = "none") =>
        \A i \in 1..Len(dom) :
            (FirstLocationCard(i) /\ ShowsNoCount(dom[i]))
                => deskResult = <<DefaultResult>>

\* C18 amended: the result comes from the first location card that shows a
\* count; location cards without availability text or without a count are
\* passed over and the later ones are looked at; the default result is
\* returned only when no location card shows a count.
C18_FirstCardWithCountDecides ==
    (pc = "unitDone" /\ err = "none") =>
        /\ \A i \in 1..Len(dom) :
              FirstCardWithCount(i) =>
                  \E n \in 0..MaxDesks :
                      /\ ShowsCount(dom[i], n)
                      /\ deskResult = <<[isAvailable |-> n > 0,
                                         desksCount |-> Count(n)]>>
        /\ (\A i \in 1..Len(dom) : ~FirstCardWithCount(i))
              => deskResult = <<DefaultResult>>

C18_Witness ==
    /\ pc = "unitDone"
    /\ dom = <<Card(YorkTitle, TRUE, FALSE, <<>>),
               Card(YorkTitle, TRUE, TRUE, Plain(MaxDesks))>>
    /\ deskResult = <<[isAvailable |-> TRUE, desksCount |-> Count(MaxDesks)]>>

\* the title of the card holds the configured location
IsConfiguredCard(card) == Includes(card.title, config.location)

\* C19: the card the availability is read from is the one whose title holds
\* the configured location, for every configured location: the first such
\* card that shows a count gives the result, and a page with no count on
\* such a card gives the default result, whatever other cards show.
C19_ConfiguredLocationSelectsCard ==
    (pc = "unitDone" /\ err = "none") =>
        /\ \A i \in 1..Len(dom), n \in 0..MaxDesks :
              ( /\ IsConfiguredCard(dom[i])
                /\ ShowsCount(dom[i], n)
                /\ \A j \in 1..(i - 1) :
                      IsConfiguredCard(dom[j]) => ShowsNoCount(dom[j]) )
              => deskResult = <<[isAvailable |-> n > 0, desksCount |-> Count(n)]>>
        /\ (\A i \in 1..Len(dom) :
                IsConfiguredCard(dom[i]) => ShowsNoCount(dom[i]))
              => deskResult = <<DefaultResult>>

\* C20: a timeout of the wait for the location text, in the navigation to
\* the booking page or in the date selection, is a warning (and a
\* screenshot) and aborts neither: the navigation returns, and the
\* availability of the date is still read and returned, as it is when the
\* text is found.
C20_LocationTimeoutIsOnlyAWarning ==
    /\ (pc = "unitNavigateDone" /\ pageAnswers.gotoOk) => err = "none"
    /\ (pc = "unitNavigateDone" /\ pageAnswers.gotoOk /\ ~pageAnswers.found
          /\ config.enableScreenshots)
          => shots = <<"10-york-rd-text-not-found">>
    /\ (pc = "unitCheckDone" /\ pageAnswers.outcome = "ok"
          /\ ~pageAnswers.pageFails) =>
          /\ err = "none"
          /\ Len(returned) = 1
          /\ returned[1].date = checkCalls[1]
          /\ \A i \in 1..Len(dom) :
                FirstCardWithCount(i) =>
                    \E n \in 0..MaxDesks :
                        /\ ShowsCount(dom[i], n)
                        /\ returned[1].isAvailable = (n > 0)
                        /\ returned[1].desksCount = Count(n)
          /\ (\A i \in 1..Len(dom) : ~FirstCardWithCount(i)) =>
                /\ ~returned[1].isAvailable
                /\ returned[1].desksCount = Undefined
          /\ (~pageAnswers.found /\ config.enableScreenshots) =>
                shots[1] = LowerDashed(config.location) \o "-text-not-found"

C20_Witness ==
    /\ pc = "unitCheckDone"
    /\ ~pageAnswers.found
    /\ pageAnswers.outcome = "ok"
    /\ config.location = "1 Main St"
    /\ config.enableScreenshots
    /\ shots[1] = "1-main-st-text-not-found"
    /\ err = "none"
    /\ returned = <<[date |-> 9, isAvailable |-> TRUE,
                     desksCount |-> Count(MaxDesks)]>>

\* C21 as stated: there is never more than one browser interaction
\* (navigation wait, element query, click, typing, screenshot) in flight.
C21_AtMostOneInFlight == Cardinality(inFlight) <= 1

\* C21 amended: but for the navigation wait that clickElement starts together
\* with its click, no two browser interactions are in flight at once; that
\* wait is in flight next to the click and, when the click fails, next to
\* the screenshot of the failure and after clickElement has returned false;
\* when clickElement returns true nothing is left in flight.
C21_OnlyNavigationWaitOverlaps ==
    /\ Cardinality(inFlight \ {"navigation wait"}) <= 1
    /\ "navigation wait" \in inFlight =>
          \/ pc \in {"awaitingAll", "catch", "shooting"}
          \/ pc = "unitClickDone" /\ returned = <<FALSE>>
    /\ (pc = "unitClickDone" /\ returned # <<FALSE>>) => inFlight = {}
    /\ pc \in {"unitClick", "found"} => inFlight = {}

C21_Witness ==
    /\ pc = "shooting"
    /\ inFlight = {"navigation wait", "screenshot"}
    /\ shots = <<"error-clicking-login-button">>

\* C22: the check of date i+1 starts only after the check of date i has
\* returned its result and the pause after it has elapsed; there is a pause
\* between every two consecutive date checks.
C22_PauseBetweenChecks ==
    /\ Len(checkCalls) >= 1 =>
          /\ delays >= Len(checkCalls) - 1
          /\ Len(availabilityResults) >= Len(checkCalls) - 1
    /\ pc = "check" =>
          /\ delays = Len(checkCalls)
          /\ Len(availabilityResults) = Len(checkCalls)
    /\ delays <= Len(availabilityResults)

C22_Witness ==
    /\ pc = "delay"
    /\ Len(checkCalls) = 2
    /\ delays = 1
    /\ Len(availabilityResults) = 2

\* an available result carries a count, and the count is positive
CountKnown(r) ==
    r.isAvailable => (r.desksCount # Undefined /\ r.desksCount[1] > 0)

\* C23: every result the checker returns has isAvailable = TRUE only with
\* desksCount set and positive, so the reporter never writes "Desks are
\* available" (available, count unknown) and the summary never writes
\* "unknown" for a result of the checker.
C23_AvailableHasPositiveCount ==
    /\ \A i \in 1..Len(deskResult) : CountKnown(deskResult[i])
    /\ \A i \in 1..Len(availabilityResults) : CountKnown(availabilityResults[i])
    /\ \A i \in 1..Len(httpPosts) :
          ~Includes(httpPosts[i].text, "Desks are available")
    /\ \A i \in 1..Len(summary) :
          summary[i].status # "Available (unknown desks)"

C23_Witness ==
    /\ pc = "exited"
    /\ Len(httpPosts) = 1
    /\ Includes(httpPosts[1].text, ToString(MaxDesks) \o " desks available")
    /\ Len(summary) = 2
    /\ summary[2].status = "Available (" \o ToString(MaxDesks) \o " desks)"

\* C24: takeScreenshot never raises and captures nothing when screenshots
\* are disabled, so the error that leaves the catch clauses of login,
\* navigateToBooking, selectDate and checkAvailability is the error they
\* caught, whether the screenshot was saved, failed or was skipped.
C24_OriginalErrorPropagates ==
    pc = "unitCatchDone" =>
        /\ err = pageAnswers.path.error
        /\ raisedBy = pageAnswers.path.fn
        /\ ~config.enableScreenshots =>
              /\ shots = <<>>
              /\ returned = <<"skipped">>
        /\ returned \in {<<"saved">>, <<"failed">>, <<"skipped">>}
        /\ returned # <<"skipped">> => shots = <<pageAnswers.path.name>>

C24_Witness ==
    /\ pc = "unitCatchDone"
    /\ pageAnswers.path.fn = "selectDate"
    /\ pageAnswers.shot = "fails"
    /\ returned = <<"failed">>
    /\ err = "TimeoutError: waiting for selector"

====
